---------------------------- MODULE Spec2Model ----------------------------
(* A state-machine model of task_manager.py: the Task record, the          *)
(* TaskManager registry (self.tasks), the rollback list                    *)
(* (self._on_rollback), and run_tasks / _run_tasks / _rollback_dependencies *)
(* with the loop of _run_tasks taken one iteration at a time.              *)
EXTENDS Naturals, Sequences, FiniteSets, TLC

(* ------------------------------ bounds -------------------------------- *)
\* number of register_task calls made by the caller
MaxRegs == 3
\* number of run_tasks calls made by the caller
MaxCalls == 2
\* length of the list of names handed to run_tasks
MaxLen == 2

(* ----------------------------- the inputs ----------------------------- *)
None == "None"
Raise == "raise"
Skip == "skip"

\* The callables the caller owns.  "rA2" is a second function object whose
\* __name__ is also "rA" (Python keys the registry by function.__name__).
Fns == {"A", "B", "rA", "rB", "rA2"}
FName(f) == IF f = "rA2" THEN "rA" ELSE f
Names == {FName(f) : f \in Fns}
\* the values an action may return
Vals == {"x", "y"}
\* the registrations the caller makes: <<function, rollback>>
Registrations ==
  {<<"A", "rA">>, <<"A", None>>, <<"B", "rB">>, <<"B", "rA2">>,
   <<"rA", "rB">>, <<"rB", None>>}
\* the registrations of a caller whose tasks reuse functions: A and B share
\* the rollback rA, and rA is itself a task whose rollback is A
RegistrationsReuse ==
  {<<"A", "rA">>, <<"B", "rA">>, <<"rA", "A">>, <<"B", "rB">>, <<"rB", None>>}
Lists(k) == UNION {[1..n -> Names] : n \in 0..k}
NameLists == Lists(MaxLen)
LongLists == Lists(MaxLen + 1)

Range(s) == {s[i] : i \in 1..Len(s)}

(* ------------------------------- Task --------------------------------- *)
\* Task.__init__
NewTask(action, rollback) ==
  [action |-> action, rollback |-> rollback,
   success |-> None, has_run |-> FALSE, output |-> None]

\* Task.run, the try branch: the action returned v
TaskRunOk(t, v) == [t EXCEPT !.output = v, !.success = "True", !.has_run = TRUE]

\* (mutation) the except branch also clears the output
TaskRunRaiseClears(t) ==
  [t EXCEPT !.output = None, !.success = "False", !.has_run = TRUE]

\* Task.run, the except branch: the action raised; _output is not touched
TaskRunRaise(t) == [t EXCEPT !.success = "False", !.has_run = TRUE]

\* Task.run with the outcome of the action given (Raise or a value)
TaskRun(t, res) == IF res = Raise THEN TaskRunRaise(t) ELSE TaskRunOk(t, res)

\* Task.flush
TaskFlush(t) == [t EXCEPT !.output = None, !.success = None, !.has_run = FALSE]

\* (mutation) the skip test is missing: every visited record is run again
ShouldSkipNever(t) == FALSE

\* (mutation) the success test inverted
ShouldSkipInverted(t) == t.has_run /\ t.success # "True"

\* Task.has_run() and Task.is_success(): the test of _run_tasks that skips
ShouldSkip(t) == t.has_run /\ t.success = "True"

\* the status of a record in the words of the specification
Status(t) ==
  IF ~t.has_run THEN "NotRun"
  ELSE IF t.success = "True" THEN "Succeeded" ELSE "Failed"

(* ---------------------------- TaskManager ----------------------------- *)
\* TaskManager._register: self.tasks[task_name] = task
Register(ts, name, task) ==
  [n \in (DOMAIN ts) \cup {name} |-> IF n = name THEN task ELSE ts[n]]

\* TaskManager.register_task: keyed by function.__name__
RegisterTaskIn(ts, f, rb) == Register(ts, FName(f), NewTask(f, rb))

\* TaskManager._register_rollback_task, its effect on self.tasks
RollbackTasks(ts, f) == RegisterTaskIn(ts, f, None)

\* (mutation) the name is inserted without the membership test
RollbackChainAlways(chain, f) == <<FName(f)>> \o chain

\* TaskManager._register_rollback_task, its effect on self._on_rollback
RollbackChain(chain, f) ==
  IF FName(f) \in Range(chain) THEN chain ELSE <<FName(f)>> \o chain

\* the validation loop of _run_tasks: the position of the first name that is
\* not a key of self.tasks, 0 when every name is registered
FirstUnknown(ts, list) ==
  LET bad == {i \in 1..Len(list) : list[i] \notin DOMAIN ts}
  IN IF bad = {} THEN 0 ELSE CHOOSE i \in bad : \A j \in bad : i <= j

\* (mutation) the registry is read with a default: no KeyError for a
\* missing name
GetOutputDefault(ts, n) ==
  IF n \in DOMAIN ts THEN [name |-> n, ok |-> TRUE, val |-> ts[n].output]
  ELSE [name |-> n, ok |-> TRUE, val |-> None]

\* TaskManager._get_output_for
GetOutput(ts, n) ==
  IF n \in DOMAIN ts THEN [name |-> n, ok |-> TRUE, val |-> ts[n].output]
  ELSE [name |-> n, ok |-> FALSE, val |-> None]

\* the items flush_tasks iterates: self.tasks.items() gives (name, Task)
\* tuples
Items(ts) == {<<n, ts[n]>> : n \in DOMAIN ts}

\* TaskManager.flush_tasks: the loop calls .flush() on each item, and a tuple
\* has no attribute flush: the first item raises AttributeError before any
\* record is touched; with no item the loop body never runs
FlushTasksIn(ts) ==
  IF Items(ts) = {} THEN [tasks |-> ts, raised |-> None]
  ELSE [tasks |-> ts, raised |-> "AttributeError"]

(* the exceptions *)
NoErr == [kind |-> None, task |-> None, cause |-> None]
\* raise Exception(f"Unknown task '{t}'...") from e
UnknownTaskErr(t) == [kind |-> "Exception", task |-> t, cause |-> "KeyError"]
\* raise TaskFailedError(f"Task '{t}' failed") from e, e raised by function f
TaskFailedErr(t, f) == [kind |-> "TaskFailedError", task |-> t, cause |-> f]

NoLookup == [name |-> None, ok |-> FALSE, val |-> None]
NoOutcome == [status |-> "none", err |-> NoErr]
NoDirect == [op |-> None, name |-> None, res |-> None, raised |-> None]

(* ------------------------------ the state ------------------------------ *)
VARIABLES
  tasks,        \* self.tasks: name -> Task
  on_rollback,  \* self._on_rollback
  pc,           \* "idle", "main" (_run_tasks called by run_tasks),
                \* "comp" (_run_tasks called by _rollback_dependencies)
  names,        \* the argument of the run_tasks call in progress
  idx,          \* position of the for loop of _run_tasks in its list
  err,          \* the exception run_tasks caught and will re-raise
  outcome,      \* how the last run_tasks call ended
  lastLookup,   \* what the last get_output_for call gave
  log,          \* history: the loop iterations of the last run_tasks call
  pre,          \* history: tasks and _on_rollback when the call started
  atFail,       \* history: tasks right after the execution phase raised
  succ,         \* history: tasks with a rollback, by their latest success
                \* in an execution phase
  nSucc,        \* history: successful runs of the record under each name
  firstOut,     \* history: value of the first successful run of the record
  undone,       \* history: <<task, fn>>: the task succeeded, its rollback fn
                \* then ran successfully in the rollback phase of that call,
                \* and the record of the task was not replaced since
  nRegs, nCalls,
  direct        \* what the caller's last direct call gave: flush_tasks(), or
                \* run() / flush() on a Task of self.tasks

vars == <<tasks, on_rollback, pc, names, idx, err, outcome, lastLookup,
          log, pre, atFail, succ, nSucc, firstOut, undone, nRegs, nCalls,
          direct>>

EmptyTasks == [n \in {} |-> NewTask(None, None)]

NoPre == [tasks |-> EmptyTasks, chain |-> <<>>]

Init ==
  /\ tasks = EmptyTasks
  /\ on_rollback = <<>>
  /\ pc = "idle"
  /\ names = <<>>
  /\ idx = 0
  /\ err = NoErr
  /\ outcome = NoOutcome
  /\ lastLookup = NoLookup
  /\ log = <<>>
  /\ pre = NoPre
  /\ atFail = EmptyTasks
  /\ succ = <<>>
  /\ nSucc = [n \in Names |-> 0]
  /\ firstOut = [n \in Names |-> None]
  /\ nRegs = 0
  /\ nCalls = 0
  /\ direct = NoDirect
  /\ undone = {}


(* --------------------------- history helpers --------------------------- *)
\* one loop iteration of _run_tasks: the name visited, the function its
\* record held, the phase and position, the record's status before the
\* iteration, its rollback, and what happened (Skip, Raise or the value
\* returned)
Event(t, cur, p, i, res) ==
  [name |-> t, fn |-> cur.action, rb |-> cur.rollback, phase |-> p,
   pos |-> i, was |-> Status(cur), res |-> res]

\* the names whose record a successful run of cur replaces by registering
\* cur's rollback
Replaced(cur) == IF cur.rollback = None THEN {} ELSE {FName(cur.rollback)}

\* succ with task t (rollback rb) moved to the end: t just succeeded
NoteSuccess(s, t, rb) ==
  IF rb = None THEN s
  ELSE SelectSeq(s, LAMBDA e : e.task # t) \o <<[task |-> t, rb |-> rb]>>

\* undone with the tasks that the success of function fn in phase p undoes:
\* those that succeeded in the execution phase of the call (history lg) with
\* rollback fn and whose record is still that one
NoteUndone(u, ts, lg, p, fn) ==
  IF p # "comp" THEN u
  ELSE u \cup {<<lg[i].name, fn>> : i \in
                 {j \in 1..Len(lg) :
                    /\ lg[j].phase = "main" /\ lg[j].res \in Vals
                    /\ lg[j].rb = fn
                    /\ Status(ts[lg[j].name]) = "Succeeded"
                    /\ ts[lg[j].name].rollback = fn}}

(* ------------------------ run_tasks: the handler ----------------------- *)
\* run_tasks, except Exception: self._rollback_dependencies(**kwargs), which
\* calls _run_tasks(self._on_rollback); that call validates the names of the
\* list first.  Gives the control state after the exception e was caught.
EnterRollback(ts, chain, e) ==
  LET u == FirstUnknown(ts, chain)
  IN IF u = 0
     THEN [pc |-> "comp", idx |-> 1, err |-> e, outcome |-> NoOutcome]
     ELSE [pc |-> "idle", idx |-> 0, err |-> NoErr,
           outcome |-> [status |-> "raised", err |-> UnknownTaskErr(chain[u])]]

\* (mutation) the loop swallows the exception and goes on with the next name
OnRaiseContinue(p, ts, chain, e, i) ==
  [pc |-> p, idx |-> i + 1, err |-> NoErr, outcome |-> NoOutcome]

\* (mutation) the rollbacks run inside a safety net: a rollback that raises
\* ends the run, and run_tasks re-raises the exception it caught first
OnRaiseOriginal(p, ts, chain, e, i) ==
  IF p = "main" THEN EnterRollback(ts, chain, e)
  ELSE [pc |-> "idle", idx |-> 0, err |-> NoErr,
        outcome |-> [status |-> "raised", err |-> err]]

\* what an exception e raised by the loop of _run_tasks at position i does:
\* in the execution phase run_tasks catches it and starts the rollbacks, in
\* the rollback phase nothing catches it and it reaches the caller
OnRaise(p, ts, chain, e, i) ==
  IF p = "main" THEN EnterRollback(ts, chain, e)
  ELSE [pc |-> "idle", idx |-> 0, err |-> NoErr,
        outcome |-> [status |-> "raised", err |-> e]]

\* the end of the for loop of _run_tasks: run_tasks returns, or, after the
\* rollbacks, re-raises the exception it caught
OnLoopEnd(p, e) ==
  IF p = "main" THEN [status |-> "returned", err |-> NoErr]
  ELSE [status |-> "raised", err |-> e]

\* (mutation) the execution phase walks its list backwards
CurListReversed ==
  IF pc = "main" THEN [i \in 1..Len(names) |-> names[Len(names) + 1 - i]]
  ELSE on_rollback

\* the list the running _run_tasks iterates: its argument, which for the
\* rollbacks is the list object self._on_rollback itself
CurList == IF pc = "main" THEN names ELSE on_rollback

(* ------------------------------ actions -------------------------------- *)
\* tm.register_task(f, rollback=rb), or the decorator tm.task(rollback=rb)
RegisterTask(f, rb) ==
  /\ pc = "idle"
  /\ nRegs < MaxRegs
  /\ tasks' = RegisterTaskIn(tasks, f, rb)
  /\ nSucc' = [nSucc EXCEPT ![FName(f)] = 0]
  /\ firstOut' = [firstOut EXCEPT ![FName(f)] = None]
  /\ nRegs' = nRegs + 1
  /\ lastLookup' = NoLookup
  /\ undone' = {p \in undone : p[1] # FName(f)}
  /\ direct' = NoDirect
  \* the record of the last call is kept only until the caller's next call
  /\ names' = <<>>
  /\ outcome' = NoOutcome
  /\ log' = <<>>
  /\ pre' = NoPre
  /\ atFail' = EmptyTasks
  /\ UNCHANGED <<on_rollback, pc, idx, err, succ, nCalls>>

\* tm.run_tasks(ns): the call, and the validation loop of _run_tasks
RunTasks(ns) ==
  /\ pc = "idle"
  /\ nCalls < MaxCalls
  /\ nCalls' = nCalls + 1
  /\ names' = ns
  /\ log' = <<>>
  /\ pre' = [tasks |-> tasks, chain |-> on_rollback]
  /\ atFail' = EmptyTasks
  /\ lastLookup' = NoLookup
  /\ undone' = undone
  /\ direct' = NoDirect
  /\ LET u == FirstUnknown(tasks, ns)
         nxt == IF u = 0
                THEN [pc |-> "main", idx |-> 1, err |-> NoErr, outcome |-> NoOutcome]
                ELSE EnterRollback(tasks, on_rollback, UnknownTaskErr(ns[u]))
     IN /\ pc' = nxt.pc
        /\ idx' = nxt.idx
        /\ err' = nxt.err
        /\ outcome' = nxt.outcome
  /\ UNCHANGED <<tasks, on_rollback, succ, nSucc, firstOut, nRegs>>

\* one iteration of the for loop: the record has run and succeeded: continue
StepSkip ==
  /\ pc \in {"main", "comp"}
  /\ idx <= Len(CurList)
  /\ LET t == CurList[idx]
         cur == tasks[t]
     IN /\ ShouldSkip(cur)
        /\ log' = Append(log, Event(t, cur, pc, idx, Skip))
  /\ idx' = idx + 1
  /\ lastLookup' = NoLookup
  /\ undone' = undone
  /\ direct' = NoDirect
  /\ UNCHANGED <<tasks, on_rollback, pc, names, err, outcome, pre, atFail,
                 succ, nSucc, firstOut, nRegs, nCalls>>

\* one iteration of the for loop: the action returns v; its rollback, when
\* it has one, is registered.  (After Task.run returned, is_success() is
\* True, so the "tagged non successful" raise of _run_tasks cannot happen.)
StepOk(v) ==
  /\ pc \in {"main", "comp"}
  /\ idx <= Len(CurList)
  /\ LET t == CurList[idx]
         cur == tasks[t]
         ts1 == [tasks EXCEPT ![t] = TaskRun(cur, v)]
         rb == cur.rollback
     IN /\ ~ShouldSkip(cur)
        /\ tasks' = IF rb # None THEN RollbackTasks(ts1, rb) ELSE ts1
        /\ on_rollback' = IF rb # None THEN RollbackChain(on_rollback, rb)
                          ELSE on_rollback
        /\ log' = Append(log, Event(t, cur, pc, idx, v))
        /\ succ' = IF pc = "main" THEN NoteSuccess(succ, t, rb) ELSE succ
        /\ nSucc' = [n \in Names |->
                       IF n \in Replaced(cur) THEN 0
                       ELSE IF n = t THEN nSucc[n] + 1 ELSE nSucc[n]]
        /\ firstOut' = [n \in Names |->
                          IF n \in Replaced(cur) THEN None
                          ELSE IF n = t /\ nSucc[n] = 0 THEN v ELSE firstOut[n]]
        /\ undone' = {p \in NoteUndone(undone, tasks, log, pc, cur.action) :
                         p[1] \notin Replaced(cur)}
  /\ idx' = idx + 1
  /\ lastLookup' = NoLookup
  /\ direct' = NoDirect
  /\ UNCHANGED <<pc, names, err, outcome, pre, atFail, nRegs, nCalls>>

\* one iteration of the for loop: the action raises; _run_tasks raises
\* TaskFailedError from it
StepRaise ==
  /\ pc \in {"main", "comp"}
  /\ idx <= Len(CurList)
  /\ LET t == CurList[idx]
         cur == tasks[t]
         ts1 == [tasks EXCEPT ![t] = TaskRun(cur, Raise)]
         nxt == OnRaise(pc, ts1, on_rollback, TaskFailedErr(t, cur.action), idx)
     IN /\ ~ShouldSkip(cur)
        /\ tasks' = ts1
        /\ log' = Append(log, Event(t, cur, pc, idx, Raise))
        /\ atFail' = IF pc = "main" THEN ts1 ELSE atFail
        /\ pc' = nxt.pc
        /\ idx' = nxt.idx
        /\ err' = nxt.err
        /\ outcome' = nxt.outcome
  /\ lastLookup' = NoLookup
  /\ undone' = undone
  /\ direct' = NoDirect
  /\ UNCHANGED <<on_rollback, names, pre, succ, nSucc, firstOut, nRegs, nCalls>>

\* the for loop is exhausted: _run_tasks returns
LoopEnd ==
  /\ pc \in {"main", "comp"}
  /\ idx > Len(CurList)
  /\ outcome' = OnLoopEnd(pc, err)
  /\ pc' = "idle"
  /\ idx' = 0
  /\ err' = NoErr
  /\ lastLookup' = NoLookup
  /\ undone' = undone
  /\ direct' = NoDirect
  /\ UNCHANGED <<tasks, on_rollback, names, log, pre, atFail, succ, nSucc,
                 firstOut, nRegs, nCalls>>

\* get_output_for(n): by the caller between calls, or, while a batch runs, by
\* the body of the action the loop is about to run (it is handed
\* self._get_output_for)
GetOutputFor(n) ==
  /\ \/ pc = "idle"
     \/ /\ pc \in {"main", "comp"}
        /\ idx <= Len(CurList)
        /\ ~ShouldSkip(tasks[CurList[idx]])
  /\ lastLookup = NoLookup
  /\ lastLookup' = GetOutput(tasks, n)
  /\ undone' = undone
  /\ direct' = NoDirect
  /\ UNCHANGED <<tasks, on_rollback, pc, names, idx, err, outcome, log, pre,
                 atFail, succ, nSucc, firstOut, nRegs, nCalls>>

\* tm.flush_tasks(), called by the caller between batches
FlushTasks ==
  /\ pc = "idle"
  /\ direct = NoDirect
  /\ LET r == FlushTasksIn(tasks)
     IN /\ tasks' = r.tasks
        /\ direct' = [op |-> "flush_tasks", name |-> None, res |-> None,
                      raised |-> r.raised]
  /\ lastLookup' = NoLookup
  /\ undone' = undone
  /\ UNCHANGED <<on_rollback, pc, names, idx, err, outcome, log, pre, atFail,
                 succ, nSucc, firstOut, nRegs, nCalls>>

\* tm.tasks[n].run(tm.get_output_for), called by the caller on the Task
\* itself: the action returns res, or raises (res = Raise) and run re-raises
\* what the action raised.  The history of the run_tasks calls is not
\* touched.
TaskRunDirect(n, res) ==
  /\ pc = "idle"
  /\ n \in DOMAIN tasks
  /\ tasks' = [tasks EXCEPT ![n] = TaskRun(tasks[n], res)]
  /\ direct' = [op |-> "Task.run", name |-> n, res |-> res,
                raised |-> IF res = Raise THEN tasks[n].action ELSE None]
  /\ lastLookup' = NoLookup
  /\ undone' = undone
  /\ UNCHANGED <<on_rollback, pc, names, idx, err, outcome, log, pre, atFail,
                 succ, nSucc, firstOut, nRegs, nCalls>>

\* tm.tasks[n].flush(), called by the caller on the Task itself
TaskFlushDirect(n) ==
  /\ pc = "idle"
  /\ n \in DOMAIN tasks
  /\ tasks' = [tasks EXCEPT ![n] = TaskFlush(tasks[n])]
  /\ direct' = [op |-> "Task.flush", name |-> n, res |-> None, raised |-> None]
  /\ lastLookup' = NoLookup
  /\ undone' = undone
  /\ UNCHANGED <<on_rollback, pc, names, idx, err, outcome, log, pre, atFail,
                 succ, nSucc, firstOut, nRegs, nCalls>>

\* the iterations of the for loop of _run_tasks, and its end
Loop ==
  \/ StepSkip
  \/ \E v \in Vals : StepOk(v)
  \/ StepRaise
  \/ LoopEnd

\* a caller that registers tasks and runs batches of at most MaxLen names
Next ==
  \/ \E r \in Registrations : RegisterTask(r[1], r[2])
  \/ \E ns \in NameLists : RunTasks(ns)
  \/ Loop

Spec == Init /\ [][Next]_vars

\* the same caller, who also reads outputs, and whose actions read them
NextLookup ==
  \/ Next
  \/ \E n \in Names : GetOutputFor(n)

SpecLookup == Init /\ [][NextLookup]_vars

\* a caller that registers tasks on a fresh TaskManager and then runs one
\* batch, of up to MaxLen + 1 names
RunTasksOnce(ns) == nCalls = 0 /\ RunTasks(ns)

NextOneCall ==
  \/ \E r \in Registrations : RegisterTask(r[1], r[2])
  \/ \E ns \in LongLists : RunTasksOnce(ns)
  \/ Loop

SpecOneCall == Init /\ [][NextOneCall]_vars

\* the caller of Spec, who also calls flush_tasks between batches
NextFlush ==
  \/ Next
  \/ FlushTasks

SpecFlush == Init /\ [][NextFlush]_vars

\* a caller that registers tasks and drives the Task objects of self.tasks
\* itself: run() with any outcome of the action, and flush()
NextTask ==
  \/ \E r \in Registrations : RegisterTask(r[1], r[2])
  \/ \E n \in Names, res \in Vals \cup {Raise} : TaskRunDirect(n, res)
  \/ \E n \in Names : TaskFlushDirect(n)

SpecTask == Init /\ [][NextTask]_vars

\* the caller of Spec, with the loop of _run_tasks going on: run_tasks runs
\* in the caller's thread, and an action that was invoked returns or raises,
\* so an iteration (or the end of the loop) that can be taken is taken
SpecLive == Init /\ [][Next]_vars /\ WF_vars(Loop)

\* the caller of Spec, making the registrations of RegistrationsReuse
NextReuse ==
  \/ \E r \in RegistrationsReuse : RegisterTask(r[1], r[2])
  \/ \E ns \in NameLists : RunTasks(ns)
  \/ Loop

SpecReuse == Init /\ [][NextReuse]_vars

(* ------------------------------ the claims ----------------------------- *)
\* a run_tasks call is in progress, or has ended and its record is kept
InCall == pc # "idle"
CallEnded == pc = "idle" /\ outcome.status # "none"
\* the list of the call named a name that was not registered when it started
ValidationFailed == FirstUnknown(pre.tasks, names) # 0
\* the iterations of the call that invoked an action
Invoked == {i \in 1..Len(log) : log[i].res # Skip}
\* the iterations of the execution phase whose action raised (at most one)
MainRaise == {i \in 1..Len(log) : log[i].phase = "main" /\ log[i].res = Raise}
\* the iterations of the rollback phase whose action raised
CompRaise == {i \in 1..Len(log) : log[i].phase = "comp" /\ log[i].res = Raise}

\* C1 (as claimed): a run_tasks call whose list holds an unregistered name
\* invokes the action of no task named in the list and ends in an error.
C1_FailFast ==
  ((InCall \/ CallEnded) /\ ValidationFailed) =>
     /\ \A i \in Invoked : log[i].name \notin Range(names)
     /\ CallEnded => outcome.status = "raised"

\* C2 (as claimed): a run_tasks call that fails validation invokes no action
\* and no rollback action, and leaves the registry records and the rollback
\* list as they were before the call.
C2_ValidationNoSideEffect ==
  ((InCall \/ CallEnded) /\ ValidationFailed) =>
     /\ Invoked = {}
     /\ tasks = pre.tasks
     /\ on_rollback = pre.chain

C5_AbortAsClaimed ==
  CallEnded =>
     \A f \in MainRaise :
        \A j \in (log[f].pos + 1)..Len(names) :
           names[j] # log[f].name =>
              /\ \A k \in Invoked : k > f => log[k].name # names[j]
              /\ Status(tasks[names[j]]) = Status(pre.tasks[names[j]])

\* C5 (amended): once the action at position i raises, the execution phase
\* visits no later position; every iteration after the raise belongs to the
\* rollback phase, and the record of every name that is not in the rollback
\* list is the one it was right after the raise.
C5_Abort ==
  (InCall \/ CallEnded) =>
     \A f \in MainRaise :
        /\ \A k \in 1..Len(log) : k > f => log[k].phase = "comp"
        /\ \A n \in DOMAIN tasks :
             n \notin Range(on_rollback) => n \in DOMAIN atFail /\ tasks[n] = atFail[n]

\* witness of C5: the first of two names raised, the second is not in the
\* rollback list, and the rollback phase invoked an action
C5_Witness ==
  /\ CallEnded
  /\ Len(names) = 2 /\ names[1] # names[2]
  /\ \E f \in MainRaise : log[f].pos = 1
  /\ names[2] \notin Range(on_rollback)
  /\ \E k \in Invoked : log[k].phase = "comp"

\* the iterations of the rollback phase that invoked function g
CompInvoked(g) ==
  {k \in Invoked : log[k].phase = "comp" /\ log[k].fn = g}

\* C6 (as claimed, for a run of the rollback list that follows the failure
\* of a task): for two tasks A and B with different rollbacks, A's latest
\* success before B's latest success, both rollbacks invoked in that run:
\* B's rollback is invoked before A's.
C6_LIFO ==
  MainRaise # {} =>
     \A i, j \in 1..Len(succ) :
        (i < j /\ succ[i].rb # succ[j].rb) =>
           \A ka \in CompInvoked(succ[i].rb), kb \in CompInvoked(succ[j].rb) :
              kb < ka

\* the iterations of the execution phase whose action returned, the record
\* having a rollback
MainOkWithRollback ==
  {i \in Invoked : log[i].phase = "main" /\ log[i].res # Raise /\ log[i].rb # None}

\* no rollback action raised: nothing raised in the rollback phase, and the
\* function that raised in the execution phase is no rollback of a task that
\* succeeded in the call
NoRollbackRaised ==
  /\ CompRaise = {}
  /\ \A f \in MainRaise, i \in MainOkWithRollback : log[f].fn # log[i].rb

\* C7 (as claimed): when a task of the call fails and no rollback action
\* raises, the own rollback function of every task that succeeded during the
\* call is invoked exactly once before the error reaches the caller.
C7_CompleteCompensation ==
  (CallEnded /\ MainRaise # {} /\ NoRollbackRaised) =>
     \A i \in MainOkWithRollback :
        Cardinality({k \in Invoked : k > i /\ log[k].fn = log[i].rb}) = 1

\* C8 (as claimed): when an action raises in the execution phase and the
\* rollback phase completes without error, the caller gets the
\* TaskFailedError of the failing task, caused by what its action raised,
\* and gets it only after every entry of the rollback list was processed.
C8_OriginalPreserved ==
  (CallEnded /\ CompRaise = {}) =>
     \A f \in MainRaise :
        /\ outcome = [status |-> "raised",
                      err |-> TaskFailedErr(log[f].name, log[f].fn)]
        /\ \A n \in Range(on_rollback) :
             \E k \in 1..Len(log) : log[k].phase = "comp" /\ log[k].name = n

\* C9 (as claimed): a lookup made by a running action for a task whose record
\* is Succeeded gives the value that task's action returned; and after a
\* run_tasks call that returned normally, the lookup of every task of the
\* list whose action the call invoked gives the value that action returned.
C9_ResultPassing ==
  /\ (InCall /\ lastLookup # NoLookup /\ lastLookup.name \in DOMAIN tasks) =>
        (Status(tasks[lastLookup.name]) = "Succeeded" =>
            /\ lastLookup.ok
            /\ lastLookup.val = firstOut[lastLookup.name])
  /\ (CallEnded /\ outcome.status = "returned") =>
        \A i \in Invoked :
           GetOutput(tasks, log[i].name) =
              [name |-> log[i].name, ok |-> TRUE, val |-> log[i].res]

\* C10: get_output_for(n) for a name n that is not a key of the registry
\* fails and gives no value, whenever it is called, and changes neither the
\* registry nor the rollback list.
C10_UnregisteredLookup ==
  [][lastLookup' # NoLookup =>
       /\ tasks' = tasks
       /\ on_rollback' = on_rollback
       /\ (lastLookup'.name \notin DOMAIN tasks =>
              ~lastLookup'.ok /\ lastLookup'.val = None)]_vars

\* witness of C10: while the rollback phase of a failed batch runs, an action
\* looked up a name that is not registered
C10_Witness ==
  /\ pc = "comp"
  /\ MainRaise # {}
  /\ lastLookup # NoLookup
  /\ lastLookup.name \notin DOMAIN tasks
  /\ ~lastLookup.ok


\* C11 (as claimed): get_output_for(n) for a name n that is registered but
\* whose record never ran successfully (status NotRun or Failed) fails; it
\* gives no value for such a task.
C11_LookupNeverSucceeded ==
  (/\ lastLookup # NoLookup
   /\ lastLookup.name \in DOMAIN tasks
   /\ Status(tasks[lastLookup.name]) # "Succeeded") => ~lastLookup.ok


\* C12 (as claimed): flush_tasks() completes without error in every state,
\* leaves every record of the registry flushed (status NotRun, no result) and
\* the rollback list as it was; so the batch that starts next finds none of
\* the records it names skippable.
C12_ResetAll ==
  [][/\ direct'.op = "flush_tasks" =>
          /\ direct'.raised = None
          /\ DOMAIN tasks' = DOMAIN tasks
          /\ \A n \in DOMAIN tasks : tasks'[n] = TaskFlush(tasks[n])
          /\ on_rollback' = on_rollback
     /\ (direct.op = "flush_tasks" /\ pc' = "main") =>
          \A i \in 1..Len(names') : ~ShouldSkip(tasks'[names'[i]])]_vars


\* C13: when a rollback action raises while the rollback list is run, that
\* iteration is the last of the call (no later entry of the list is visited),
\* the call has ended, and what reaches the caller is the TaskFailedError of
\* the rollback that raised, caused by what it raised, whatever error
\* started the rollbacks.
C13_CompensationFailure ==
  (InCall \/ CallEnded) =>
     \A f \in CompRaise :
        /\ f = Len(log)
        /\ pc = "idle"
        /\ outcome = [status |-> "raised",
                      err |-> TaskFailedErr(log[f].name, log[f].fn)]

\* witness of C13: a task failed in the execution phase, then the first of
\* two entries of the rollback list raised, and the caller got an error that
\* is not the one of the task
C13_Witness ==
  /\ CallEnded
  /\ \E m \in MainRaise, f \in CompRaise :
       /\ log[f].pos = 1
       /\ Len(on_rollback) >= 2
       /\ outcome.err # TaskFailedErr(log[m].name, log[m].fn)
       /\ outcome.err = TaskFailedErr(log[f].name, log[f].fn)


\* C14: after any sequence of register_task, run_tasks and get_output_for
\* calls, every record of the registry holds a result exactly when its most
\* recent run completed without raising (status Succeeded); no record is
\* Failed while holding the result of an earlier successful run.
C14_NoStaleResult ==
  \A n \in DOMAIN tasks :
     (tasks[n].output # None) <=> (Status(tasks[n]) = "Succeeded")

\* witness of C14: a second batch ran again a record that had failed, it
\* failed again and holds no result, next to a record that succeeded and
\* holds one
C14_Witness ==
  /\ CallEnded /\ nCalls = 2
  /\ \E i \in 1..Len(log) :
       /\ log[i].was = "Failed" /\ log[i].res = Raise
       /\ Status(tasks[log[i].name]) = "Failed"
       /\ tasks[log[i].name].output = None
  /\ \E n \in DOMAIN tasks :
       Status(tasks[n]) = "Succeeded" /\ tasks[n].output \in Vals


\* C15: Task.run on a record in any status: when the action returns, the
\* record is Succeeded and its result is the returned value; when the action
\* raises, the record is Failed, the error reaches the caller, and the result
\* is exactly what it was before the call.  No other record changes, and
\* neither does the rollback list.
C15_TaskRun ==
  [][direct'.op = "Task.run" =>
       LET n == direct'.name
           r == direct'.res
       IN /\ DOMAIN tasks' = DOMAIN tasks
          /\ \A m \in DOMAIN tasks \ {n} : tasks'[m] = tasks[m]
          /\ on_rollback' = on_rollback
          /\ tasks'[n].action = tasks[n].action
          /\ tasks'[n].rollback = tasks[n].rollback
          /\ r # Raise => /\ Status(tasks'[n]) = "Succeeded"
                          /\ tasks'[n].output = r
                          /\ direct'.raised = None
          /\ r = Raise => /\ Status(tasks'[n]) = "Failed"
                          /\ tasks'[n].output = tasks[n].output
                          /\ direct'.raised # None]_vars

\* witness of C15: run() raised on a record that held the result of an
\* earlier successful run; the record is Failed and still holds that result,
\* and another record of the registry holds a different state
C15_Witness ==
  /\ direct.op = "Task.run" /\ direct.res = Raise
  /\ Status(tasks[direct.name]) = "Failed"
  /\ tasks[direct.name].output \in Vals
  /\ \E m \in DOMAIN tasks : m # direct.name /\ Status(tasks[m]) = "Succeeded"


\* the rollback list holds no name twice, and each of its names is a key of
\* the registry
ChainOk ==
  /\ \A i, j \in 1..Len(on_rollback) : on_rollback[i] = on_rollback[j] => i = j
  /\ Range(on_rollback) \subseteq DOMAIN tasks

\* a step that is one iteration of the loop of _run_tasks, and the record of
\* that iteration
IsIteration == Len(log') = Len(log) + 1
LastEvent == log'[Len(log')]

\* C16: each iteration of _run_tasks, in either phase, whose action returns
\* and whose record has a rollback puts a new record of the rollback under
\* the rollback's name and puts that name at the front of the rollback list
\* unless the list holds it already; an iteration whose record has no
\* rollback, or whose action raised, or that skipped, leaves the list as it
\* was.  In every reachable state the list holds no name twice and only keys
\* of the registry.
C16_ChainConstruction ==
  /\ []ChainOk
  /\ [][IsIteration =>
          IF LastEvent.res \in Vals /\ LastEvent.rb # None
          THEN /\ FName(LastEvent.rb) \in DOMAIN tasks'
               /\ tasks'[FName(LastEvent.rb)] = NewTask(LastEvent.rb, None)
               /\ on_rollback' =
                    IF FName(LastEvent.rb) \in Range(on_rollback)
                    THEN on_rollback
                    ELSE <<FName(LastEvent.rb)>> \o on_rollback
          ELSE on_rollback' = on_rollback]_vars

\* witness of C16: one batch in which a task succeeded whose rollback name
\* the list held already (not inserted again) and a task succeeded whose
\* rollback name is new (now at the front), and a task without rollback
C16_Witness ==
  /\ CallEnded
  /\ Len(pre.chain) = 1 /\ Len(on_rollback) = 2
  /\ \E i, j \in 1..Len(log) :
       /\ log[i].res \in Vals /\ log[i].rb # None
       /\ FName(log[i].rb) \in Range(pre.chain)
       /\ log[j].res \in Vals /\ log[j].rb # None
       /\ FName(log[j].rb) \notin Range(pre.chain)
       /\ on_rollback[1] = FName(log[j].rb)


\* C17 (as claimed, for a run of the rollback list that follows the failure
\* of a task): while the rollback list is run, no step changes the list (its
\* names and their order), no name is added to the registry, and no record
\* is put under a name other than the one the iteration visits.
C17_NoRebuild ==
  [][(pc = "comp" /\ MainRaise # {}) =>
       /\ on_rollback' = on_rollback
       /\ DOMAIN tasks' = DOMAIN tasks
       /\ \A n \in DOMAIN tasks :
            (idx > Len(on_rollback) \/ n # on_rollback[idx]) =>
               tasks'[n] = tasks[n]]_vars


\* C18 (as claimed): an iteration of the loop of _run_tasks (skipping or
\* running the record it visits) and a get_output_for call leave the status
\* and the result stored under every other name of the registry as they
\* were.
C18_StatusFrame ==
  [][(IsIteration \/ lastLookup' # NoLookup) =>
       \A n \in DOMAIN tasks :
          \/ IsIteration /\ n = LastEvent.name
          \/ /\ n \in DOMAIN tasks'
             /\ Status(tasks'[n]) = Status(tasks[n])
             /\ tasks'[n].output = tasks[n].output]_vars


\* the iterations of the rollback phase
CompEvents == {k \in 1..Len(log) : log[k].phase = "comp"}

\* every run_tasks call that started ends
C19_Terminates == InCall ~> CallEnded

\* a call that returned normally leaves every task of its list Succeeded
C19_Completed ==
  (CallEnded /\ outcome.status = "returned") =>
     \A i \in 1..Len(names) : Status(tasks[names[i]]) = "Succeeded"

\* a call that raised did so after the run of the rollback list: the run
\* visited every position of the list, or a rollback raised
C19_RaisedAfterRollbacks ==
  (CallEnded /\ outcome.status # "returned") =>
     /\ outcome.status = "raised"
     /\ CompRaise # {} \/ Cardinality(CompEvents) = Len(on_rollback)

\* the run of the rollback list visits each position of the list at most
\* once, in increasing order
C19_FiniteVisits ==
  \A k, l \in CompEvents :
     /\ log[k].pos <= Len(on_rollback)
     /\ k < l => log[k].pos < log[l].pos

\* C19 (as claimed): every run_tasks call ends, either returning normally
\* with every task of its list Succeeded, or raising after the run of the
\* rollback list; that run visits finitely many entries of the list.
C19_Termination ==
  /\ C19_Terminates
  /\ []C19_Completed
  /\ []C19_RaisedAfterRollbacks
  /\ []C19_FiniteVisits


\* an iteration of the rollback phase (run after a task failed) that
\* invokes the rollback of a task leaves the status and the result of that
\* task as they were
C20_RollbackKeepsTask ==
  [][(pc = "comp" /\ MainRaise # {} /\ IsIteration /\ LastEvent.res # Skip) =>
       \A n \in DOMAIN tasks :
          (n # LastEvent.name /\ tasks[n].rollback = LastEvent.fn) =>
             /\ n \in DOMAIN tasks'
             /\ Status(tasks'[n]) = Status(tasks[n])
             /\ tasks'[n].output = tasks[n].output]_vars

\* after a failed call in which a task succeeded and its rollback then ran
\* successfully, the task is Succeeded and holds its result; it stays so
\* until its record is replaced
C20_StillSucceeded ==
  /\ (CallEnded /\ outcome.status = "raised") =>
        \A i \in MainOkWithRollback :
           (\E k \in CompInvoked(log[i].rb) : k > i /\ log[k].res \in Vals) =>
              /\ Status(tasks[log[i].name]) = "Succeeded"
              /\ tasks[log[i].name].output = log[i].res
  /\ \A p \in undone : Status(tasks[p[1]]) = "Succeeded"

\* an iteration that visits a task whose rollback has run skips it, and an
\* iteration of the rollback phase (run after a task failed) does not invoke
\* the rollback of such a task again
C20_NotAgain ==
  [][IsIteration =>
       \A p \in undone :
          /\ LastEvent.name = p[1] => LastEvent.res = Skip
          /\ (pc = "comp" /\ MainRaise # {} /\ LastEvent.res # Skip) =>
                LastEvent.fn # p[2]]_vars

\* C20 (as claimed): the rollback phase never changes the status or result
\* of the task whose rollback it invokes; after a failed call in which A
\* succeeded and A's rollback ran successfully, A is still Succeeded; a later
\* call that names A skips it, and a failure in that call does not invoke
\* A's rollback again, as long as the record of A is not replaced.
C20_CompensatedStaySucceeded ==
  /\ C20_RollbackKeepsTask
  /\ []C20_StillSucceeded
  /\ C20_NotAgain

=============================================================================
